---- MODULE Spec2Model ----
(***************************************************************************)
(* Model of src/utils.py: map_coordinates (the coordinate mapper) and      *)
(* OneEuroFilter (the adaptive low-pass filter).                           *)
(*                                                                         *)
(* The program computes on Python floats, that is IEEE-754 binary64 with   *)
(* round-to-nearest-even.  The model computes on the same numbers: a       *)
(* float is a sign, a 53-bit significand and an exponent, the significand  *)
(* held as a little-endian sequence of 14-bit limbs because TLC computes   *)
(* on 32-bit integers.  Every arithmetic operator below computes           *)
(* the exact result and rounds it once, as the hardware does.  Exponents   *)
(* are unbounded: the inputs the specifications draw keep every value in   *)
(* the normal range of binary64 (see InNormalRange), where gradual         *)
(* underflow and overflow do not occur.  0.0 and -0.0, which compare equal *)
(* in Python, are one value here.                                          *)
(***************************************************************************)
EXTENDS Integers, Sequences, FiniteSets, TLC

----------------------------------------------------------------------------
(* Natural numbers of any size: little-endian limbs, no high zero limb.    *)

LimbBits == 14
Base == 2^14

\* Significand width of a Python float (binary64).
MantBits == 53

RECURSIVE Pow2(_)
Pow2(n) == IF n = 0 THEN 1 ELSE 2 * Pow2(n - 1)

Rest(a) == IF a = <<>> THEN <<>> ELSE Tail(a)
Low(a) == IF a = <<>> THEN 0 ELSE Head(a)

RECURSIVE BNorm(_)
BNorm(a) ==
  IF a = <<>> THEN a
  ELSE IF a[Len(a)] = 0 THEN BNorm(SubSeq(a, 1, Len(a) - 1)) ELSE a

RECURSIVE BFromInt(_)
BFromInt(n) == IF n = 0 THEN <<>> ELSE <<n % Base>> \o BFromInt(n \div Base)

RECURSIVE BToInt(_)
BToInt(a) == IF a = <<>> THEN 0 ELSE Head(a) + Base * BToInt(Tail(a))

RECURSIVE BAddC(_, _, _)
BAddC(a, b, c) ==
  IF a = <<>> /\ b = <<>> THEN (IF c = 0 THEN <<>> ELSE <<c>>)
  ELSE LET s == Low(a) + Low(b) + c
       IN  <<s % Base>> \o BAddC(Rest(a), Rest(b), s \div Base)

BAdd(a, b) == BAddC(a, b, 0)

\* a - b - c for a >= b + c
RECURSIVE BSubC(_, _, _)
BSubC(a, b, c) ==
  IF a = <<>> THEN <<>>
  ELSE LET d == Head(a) - Low(b) - c
       IN  IF d < 0 THEN <<d + Base>> \o BSubC(Tail(a), Rest(b), 1)
           ELSE <<d>> \o BSubC(Tail(a), Rest(b), 0)

BSub(a, b) == BNorm(BSubC(a, b, 0))

\* -1, 0, 1 as a < b, a = b, a > b
RECURSIVE BCmpAt(_, _, _)
BCmpAt(a, b, i) ==
  IF i = 0 THEN 0
  ELSE IF a[i] < b[i] THEN -1
  ELSE IF a[i] > b[i] THEN 1
  ELSE BCmpAt(a, b, i - 1)

BCmp(a, b) ==
  IF Len(a) < Len(b) THEN -1
  ELSE IF Len(a) > Len(b) THEN 1
  ELSE BCmpAt(a, b, Len(a))

\* a * k + c for 0 <= k < Base
RECURSIVE BMulSmallC(_, _, _)
BMulSmallC(a, k, c) ==
  IF a = <<>> THEN (IF c = 0 THEN <<>> ELSE <<c>>)
  ELSE LET p == Head(a) * k + c
       IN  <<p % Base>> \o BMulSmallC(Tail(a), k, p \div Base)

BMulSmall(a, k) == IF k = 0 THEN <<>> ELSE BMulSmallC(a, k, 0)

RECURSIVE BMul(_, _)
BMul(a, b) ==
  IF a = <<>> \/ b = <<>> THEN <<>>
  ELSE LET hi == BMul(a, Tail(b))
       IN  BAdd(BMulSmall(a, Head(b)), IF hi = <<>> THEN <<>> ELSE <<0>> \o hi)

RECURSIVE Zeros(_)
Zeros(n) == IF n = 0 THEN <<>> ELSE <<0>> \o Zeros(n - 1)

\* a * 2^k
BShl(a, k) ==
  IF a = <<>> THEN <<>>
  ELSE Zeros(k \div LimbBits) \o BMulSmallC(a, Pow2(k % LimbBits), 0)

\* floor(a / 2^r) for 0 <= r < LimbBits
RECURSIVE BShrSmall(_, _)
BShrSmall(a, r) ==
  IF a = <<>> THEN <<>>
  ELSE <<(Head(a) \div Pow2(r)) + (Low(Tail(a)) % Pow2(r)) * Pow2(LimbBits - r)>>
       \o BShrSmall(Tail(a), r)

\* floor(a / 2^k)
BShr(a, k) ==
  IF k \div LimbBits >= Len(a) THEN <<>>
  ELSE BNorm(BShrSmall(SubSeq(a, (k \div LimbBits) + 1, Len(a)), k % LimbBits))

RECURSIVE IntBitLen(_)
IntBitLen(n) == IF n = 0 THEN 0 ELSE 1 + IntBitLen(n \div 2)

BBitLen(a) ==
  IF a = <<>> THEN 0 ELSE LimbBits * (Len(a) - 1) + IntBitLen(a[Len(a)])

\* The next LimbBits quotient bits of rem / d (rem < d): <<bits, remainder>>
RECURSIVE DivLimb(_, _, _, _)
DivLimb(rem, d, i, acc) ==
  IF i = 0 THEN <<acc, rem>>
  ELSE LET r2 == BAdd(rem, rem)
       IN  IF BCmp(r2, d) >= 0 THEN DivLimb(BSub(r2, d), d, i - 1, 2 * acc + 1)
           ELSE DivLimb(r2, d, i - 1, 2 * acc)

\* <<floor(rem * Base^n / d), remainder>> for rem < d, most significant limb first
RECURSIVE DivLimbs(_, _, _, _)
DivLimbs(rem, d, n, q) ==
  IF n = 0 THEN <<BNorm(q), rem>>
  ELSE LET s == DivLimb(rem, d, LimbBits, 0)
       IN  DivLimbs(s[2], d, n - 1, <<s[1]>> \o q)

\* A natural number from its decimal digits, most significant first.
RECURSIVE BDecAcc(_, _)
BDecAcc(digits, acc) ==
  IF digits = <<>> THEN acc
  ELSE BDecAcc(Tail(digits), BMulSmallC(acc, 10, Head(digits)))

Dec(digits) == BDecAcc(digits, <<>>)

----------------------------------------------------------------------------
(* Python floats.  A finite float is [k |-> "num", s, m, e] with value     *)
(* (-1)^s * m * 2^e, m = <<>> (zero, s = 0, e = 0) or 2^52 <= m < 2^53.    *)
(* NaN is what numpy's float64 division gives for 0.0 / 0.               *)

NaN == [k |-> "nan"]
FZero == [k |-> "num", s |-> 0, m |-> <<>>, e |-> 0]

IsNum(a) == a.k = "num"
IsZero(a) == a.k = "num" /\ a.m = <<>>

\* The float nearest to (-1)^s * m * 2^e, ties to the even significand:
\* FRound cuts m to its leading MantBits bits q, compares the bits cut off
\* with half a unit of q (c), rounds q up or not, and renormalises a q that
\* rounding carried to MantBits + 1 bits.
Mk(s, m, e) == [k |-> "num", s |-> s, m |-> m, e |-> e]

Renormalised(s, q, e) ==
  IF BBitLen(q) > MantBits THEN Mk(s, BShr(q, 1), e + 1) ELSE Mk(s, q, e)

RoundedUp(s, q, e, c) ==
  Renormalised(s, IF c > 0 \/ (c = 0 /\ q[1] % 2 = 1) THEN BAdd(q, <<1>>) ELSE q, e)

CutTo(s, m, e, sh, q) ==
  RoundedUp(s, q, e + sh, BCmp(BSub(m, BShl(q, sh)), BShl(<<1>>, sh - 1)))

RoundBits(s, m, e, n) ==
  IF n <= MantBits THEN Mk(s, BShl(m, MantBits - n), e - (MantBits - n))
  ELSE CutTo(s, m, e, n - MantBits, BShr(m, n - MantBits))

FRound(s, m, e) == IF m = <<>> THEN FZero ELSE RoundBits(s, m, e, BBitLen(m))

\* float(n) for an int n; exact for |n| < 2^53
FromInt(n) == IF n < 0 THEN FRound(1, BFromInt(-n), 0) ELSE FRound(0, BFromInt(n), 0)

\* The float m * 2^e written with a small significand, and its negation
Fl(m, e) == FRound(0, BFromInt(m), e)
FNeg(a) == IF IsZero(a) \/ ~IsNum(a) THEN a ELSE [a EXCEPT !.s = 1 - a.s]
FAbs(a) == IF IsNum(a) THEN [a EXCEPT !.s = 0] ELSE a

\* -1, 0, 1 as |a| < |b|, |a| = |b|, |a| > |b| (finite floats)
MagCmp(a, b) ==
  IF a.m = <<>> THEN (IF b.m = <<>> THEN 0 ELSE -1)
  ELSE IF b.m = <<>> THEN 1
  ELSE IF a.e < b.e THEN -1
  ELSE IF a.e > b.e THEN 1
  ELSE BCmp(a.m, b.m)

\* -1, 0, 1 as a < b, a = b, a > b (finite floats)
FCmp(a, b) ==
  IF a.s # b.s THEN (IF a.s = 1 THEN -1 ELSE 1)
  ELSE IF a.s = 0 THEN MagCmp(a, b) ELSE MagCmp(b, a)

\* Python's comparisons: every comparison with NaN is False
FLt(a, b) == IsNum(a) /\ IsNum(b) /\ FCmp(a, b) < 0
FLe(a, b) == IsNum(a) /\ IsNum(b) /\ FCmp(a, b) <= 0
FGt(a, b) == FLt(b, a)
FGe(a, b) == FLe(b, a)
FEq(a, b) == IsNum(a) /\ IsNum(b) /\ FCmp(a, b) = 0

\* An operand that is no finite float (NaN, or the exception an earlier
\* division raised) is the result of the operation
Poison(a, b) == IF ~IsNum(a) THEN a ELSE b

\* |a| + |b| or | |a| - |b| | on the common exponent e, with the sign of
\* the larger magnitude: the exact sum, rounded once
SumAligned(sa, ma, sb, mb, e, c) ==
  IF sa = sb THEN FRound(sa, BAdd(ma, mb), e)
  ELSE IF c = 0 THEN FZero
  ELSE FRound(IF c > 0 THEN sa ELSE sb,
              IF c > 0 THEN BSub(ma, mb) ELSE BSub(mb, ma), e)

SumMag(sa, ma, sb, mb, e) == SumAligned(sa, ma, sb, mb, e, BCmp(ma, mb))

SumAt(a, b, e) == SumMag(a.s, BShl(a.m, a.e - e), b.s, BShl(b.m, b.e - e), e)

FAdd(a, b) ==
  IF ~IsNum(a) \/ ~IsNum(b) THEN Poison(a, b)
  ELSE IF a.m = <<>> THEN b
  ELSE IF b.m = <<>> THEN a
  ELSE SumAt(a, b, IF a.e < b.e THEN a.e ELSE b.e)

FSub(a, b) == FAdd(a, FNeg(b))

FMul(a, b) ==
  IF ~IsNum(a) \/ ~IsNum(b) THEN Poison(a, b)
  ELSE IF a.m = <<>> \/ b.m = <<>> THEN FZero
  ELSE FRound((a.s + b.s) % 2, BMul(a.m, b.m), a.e + b.e)

\* a / b for finite a # 0 and b # 0: the leading quotient bit, 4 limbs (56
\* bits) of quotient below it and a sticky bit for the remainder, rounded once
QuotBits(s, e, lead, qr) ==
  FRound(s, BMulSmallC(BAdd(qr[1], BShl(BFromInt(lead), 4 * LimbBits)), 2,
                       IF qr[2] = <<>> THEN 0 ELSE 1), e)

QuotLead(a, b, lead) ==
  QuotBits((a.s + b.s) % 2, a.e - b.e - 4 * LimbBits - 1, lead,
           DivLimbs(IF lead = 1 THEN BSub(a.m, b.m) ELSE a.m, b.m, 4, <<>>))

FQuot(a, b) ==
  IF a.m = <<>> THEN FZero
  ELSE QuotLead(a, b, IF BCmp(a.m, b.m) >= 0 THEN 1 ELSE 0)

\* Python's float division: a zero divisor raises ZeroDivisionError
ZeroDivisionError == [k |-> "ZeroDivisionError"]

FDiv(a, b) ==
  IF ~IsNum(a) \/ ~IsNum(b) THEN Poison(a, b)
  ELSE IF IsZero(b) THEN ZeroDivisionError
  ELSE FQuot(a, b)

\* int(a) for a finite float of small magnitude: truncation toward zero
Magnitude(a) ==
  IF a.m = <<>> THEN 0
  ELSE IF a.e >= 0 THEN BToInt(BShl(a.m, a.e))
  ELSE BToInt(BShr(a.m, -a.e))

Trunc(a) == IF a.s = 1 THEN -Magnitude(a) ELSE Magnitude(a)

----------------------------------------------------------------------------
(* numpy's float64 operations used by map_coordinates.                     *)

Inf(s) == [k |-> "inf", s |-> s]
One == Fl(1, 0)

\* np.float64 / int: a zero divisor gives nan (0/0) or +-inf with a warning
NpDiv(a, b) ==
  IF ~IsNum(a) \/ ~IsNum(b) THEN NaN
  ELSE IF IsZero(b) THEN (IF IsZero(a) THEN NaN ELSE Inf(a.s))
  ELSE FQuot(a, b)

\* np.clip(v, lo, hi) = minimum(maximum(v, lo), hi): hi when lo > hi
NpMaximum(a, b) == IF FGe(a, b) THEN a ELSE b
NpMinimum(a, b) == IF FLe(a, b) THEN a ELSE b
NpClip(v, lo, hi) == NpMinimum(NpMaximum(v, lo), hi)

\* np.interp(v, [0, 1], [fp0, fp1]): the ends outside [0, 1], the knots'
\* values at the knots, slope * (v - xp[0]) + fp0 between them
NpInterp(v, fp0, fp1) ==
  IF v.k = "nan" THEN NaN
  ELSE IF v.k = "inf" THEN (IF v.s = 1 THEN fp0 ELSE fp1)
  ELSE IF FGt(v, One) THEN fp1
  ELSE IF FLt(v, FZero) THEN fp0
  ELSE IF FEq(v, One) THEN fp1
  ELSE IF FEq(v, FZero) THEN fp0
  ELSE FAdd(FMul(NpDiv(FSub(fp1, fp0), FSub(One, FZero)), FSub(v, FZero)), fp0)

\* int(v): "ok" with the truncated value, or the exception int() raises
PyIntRound(v) ==
  IF v.k = "nan" THEN [kind |-> "ValueError"]
  ELSE IF v.k = "inf" THEN [kind |-> "OverflowError"]
  ELSE [kind |-> "ok", val |-> Trunc(FAdd(v, Fl(1, -1)))]

PyInt(v) ==
  IF v.k = "nan" THEN [kind |-> "ValueError"]
  ELSE IF v.k = "inf" THEN [kind |-> "OverflowError"]
  ELSE [kind |-> "ok", val |-> Trunc(v)]

----------------------------------------------------------------------------
(* map_coordinates                                                         *)

margin == 100

\* x_clamped = np.clip(x * src_w, margin, src_w - margin)
Clamped(v, src) == NpClip(FMul(v, FromInt(src)), FromInt(margin), FromInt(src - margin))

\* x_norm = (x_clamped - margin) / (src_w - 2 * margin)
RenormaliseNoOffset(c, src) == NpDiv(c, FromInt(src - 2 * margin))

Renormalise(c, src) == NpDiv(FSub(c, FromInt(margin)), FromInt(src - 2 * margin))

\* screen_x = np.interp(x_norm, [0, 1], [0, dst_w])
Screen(v, src, dst) == NpInterp(Renormalise(Clamped(v, src), src), FromInt(0), FromInt(dst))

\* return int(screen_x), int(screen_y): the pair, or the first exception
Pair(px, py) ==
  IF px.kind # "ok" THEN [kind |-> px.kind]
  ELSE IF py.kind # "ok" THEN [kind |-> py.kind]
  ELSE [kind |-> "ok", x |-> px.val, y |-> py.val]

map_coordinates_swapped(vx, vy, src_w, src_h, dst_w, dst_h) ==
  Pair(PyInt(Screen(vx, src_w, dst_w)), PyInt(Screen(vy, src_h, dst_w)))

map_coordinates(vx, vy, src_w, src_h, dst_w, dst_h) ==
  Pair(PyInt(Screen(vx, src_w, dst_w)), PyInt(Screen(vy, src_h, dst_h)))

----------------------------------------------------------------------------
(* Bounds of the model and the inputs drawn within them.                   *)

\* Calls of __call__ made on the filter instance
MaxCalls == 2
\* Timestamps are 0, 1, ..., MaxTick quarters of a second
MaxTick == 3
\* Normalized coordinates are k / Grid for k in -1 .. Grid + 1
Grid == 20

\* The Python float n / d
Ratio(n, d) == FDiv(FromInt(n), FromInt(d))

Times == {FMul(FromInt(k), Fl(1, -2)) : k \in 0..MaxTick}
Values == {Ratio(1, 2), Ratio(9, 10)}
\* <<min_cutoff, beta, d_cutoff>>: the defaults, two speed-adaptive filters
\* (beta = 2^-50 and beta = 1), two configurations with a zero cutoff and one
\* with the negative cutoff -1 / math.pi
Params == {<<Fl(1, 0), FZero, Fl(1, 0)>>, <<Fl(2, 0), Fl(1, -50), Fl(1, 0)>>,
           <<Fl(1, 0), Fl(1, 0), Fl(1, 0)>>,
           <<FZero, FZero, Fl(1, 0)>>, <<Fl(1, 0), FZero, FZero>>,
           <<FNeg(FDiv(Fl(1, 0), FRound(0, Dec(<<7,0,7,4,2,3,7,7,5,2,0,2,8,4,4,0>>), -51))),
             FZero, Fl(1, 0)>>}

Norms == {Ratio(k, Grid) : k \in -1..(Grid + 1)}
SrcSizes == {<<1000, 1000>>, <<640, 480>>, <<200, 1000>>, <<100, 480>>}
DstSizes == {<<1920, 1080>>, <<0, 768>>}

----------------------------------------------------------------------------
(* The state: one OneEuroFilter instance, the calls made on it so far, and *)
(* one call of map_coordinates with its result.                            *)

VARIABLES
  t_prev, x_prev, dx_prev,        \* self.t_prev, self.x_prev, self.dx_prev
  min_cutoff, beta, d_cutoff,     \* self.min_cutoff, self.beta, self.d_cutoff
  log,                            \* the calls of __call__ on the instance, in order
  margs,                          \* the arguments of the map_coordinates call
  mret                            \* what that call returned or raised

filterVars == <<t_prev, x_prev, dx_prev, min_cutoff, beta, d_cutoff, log>>
mapVars == <<margs, mret>>
vars == <<t_prev, x_prev, dx_prev, min_cutoff, beta, d_cutoff, log, margs, mret>>

----------------------------------------------------------------------------
(* OneEuroFilter                                                           *)

\* math.pi = 0x1.921fb54442d18p+1
Pi == FRound(0, Dec(<<7,0,7,4,2,3,7,7,5,2,0,2,8,4,4,0>>), -51)

\* r = 2 * math.pi * cutoff * t_e, evaluated left to right
Radians(t_e, cutoff) == FMul(FMul(FMul(FromInt(2), Pi), cutoff), t_e)

\* return r / (r + 1)
Fraction(r) == FDiv(r, FAdd(r, FromInt(1)))

smoothing_factor_undivided(t_e, cutoff) == Radians(t_e, cutoff)

smoothing_factor(t_e, cutoff) == Fraction(Radians(t_e, cutoff))

exponential_smoothing_unweighted(a, v, v_prev) == FAdd(FMul(a, v), FMul(a, v_prev))

exponential_smoothing(a, v, v_prev) == FAdd(FMul(a, v), FMul(FSub(FromInt(1), a), v_prev))

\* __init__: the fields as stored, nothing checked
OneEuroFilterInit(t0, x0, dx0, mc, b, dc) ==
  [t_prev |-> t0, x_prev |-> x0, dx_prev |-> dx0, min_cutoff |-> mc, beta |-> b, d_cutoff |-> dc]

\* if t_e <= 0: return self.x_prev
RejectsNegativeOnly(t_e) == FLt(t_e, FZero)

Rejects(t_e) == FLe(t_e, FZero)

\* cutoff = self.min_cutoff + self.beta * abs(dx_hat)
CutoffMinus(dx_hat) == FSub(min_cutoff, FMul(beta, FAbs(dx_hat)))

Cutoff(dx_hat) == FAdd(min_cutoff, FMul(beta, FAbs(dx_hat)))

\* What a call past the guard computes, in the order of the code: t_e, a_d,
\* dx, dx_hat, cutoff, a, x_hat.  A ZeroDivisionError raised on the way is
\* the value of everything computed from it, x_hat included.
WithAlpha(v, t_e, a_d, dx, dx_hat, cutoff, a) ==
  [t_e |-> t_e, a_d |-> a_d, dx |-> dx, dx_hat |-> dx_hat, cutoff |-> cutoff, a |-> a,
   x_hat |-> exponential_smoothing(a, v, x_prev)]

WithCutoff(v, t_e, a_d, dx, dx_hat, cutoff) ==
  WithAlpha(v, t_e, a_d, dx, dx_hat, cutoff, smoothing_factor(t_e, cutoff))

WithSpeed(v, t_e, a_d, dx, dx_hat) == WithCutoff(v, t_e, a_d, dx, dx_hat, Cutoff(dx_hat))

WithDerivative(v, t_e, a_d, dx) ==
  WithSpeed(v, t_e, a_d, dx, exponential_smoothing(a_d, dx, dx_prev))

WithElapsed(v, t_e) ==
  WithDerivative(v, t_e, smoothing_factor(t_e, d_cutoff), FDiv(FSub(v, x_prev), t_e))

Estimate(t, v) == WithElapsed(v, FSub(t, t_prev))

\* self.x_prev = x_hat; self.dx_prev = dx_hat; self.t_prev = t
UpdateKeepsTime(t, est) == [t_prev |-> t_prev, x_prev |-> est.x_hat, dx_prev |-> est.dx_hat]

Update(t, est) == [t_prev |-> t, x_prev |-> est.x_hat, dx_prev |-> est.dx_hat]

Fields == [t_prev |-> t_prev, x_prev |-> x_prev, dx_prev |-> dx_prev]

Store(new) ==
  /\ t_prev' = new.t_prev
  /\ x_prev' = new.x_prev
  /\ dx_prev' = new.dx_prev

\* One entry of log: the call, the fields before it, what it returned or
\* raised and, when it got past the guard and raised nothing, what it computed
Entry(t, v, outcome, ret, est) ==
  [t |-> t, x |-> v, pre |-> Fields, outcome |-> outcome, ret |-> ret, est |-> est]

\* The call past the guard: the exception leaves the fields as they were
Filtered(t, v, est) ==
  IF est.x_hat.k = "ZeroDivisionError"
  THEN /\ log' = Append(log, Entry(t, v, "raised", ZeroDivisionError, <<>>))
       /\ UNCHANGED <<t_prev, x_prev, dx_prev>>
  ELSE /\ log' = Append(log, Entry(t, v, "returned", est.x_hat, <<est>>))
       /\ Store(Update(t, est))

\* __call__(t, v)
Call(t, v) ==
  /\ Len(log) < MaxCalls
  /\ IF Rejects(FSub(t, t_prev))
     THEN /\ log' = Append(log, Entry(t, v, "returned", x_prev, <<>>))
          /\ UNCHANGED <<t_prev, x_prev, dx_prev>>
     ELSE Filtered(t, v, Estimate(t, v))
  /\ UNCHANGED <<min_cutoff, beta, d_cutoff, margs, mret>>

----------------------------------------------------------------------------
(* The specifications.  Spec: a filter is constructed and called.  MapSpec: *)
(* map_coordinates is called once on arguments drawn from the inputs.      *)

NoCall == [kind |-> "none"]

MapCall ==
  /\ mret = NoCall
  /\ mret' = map_coordinates(margs.x, margs.y, margs.src_w, margs.src_h, margs.dst_w, margs.dst_h)
  /\ UNCHANGED <<margs, t_prev, x_prev, dx_prev, min_cutoff, beta, d_cutoff, log>>

Constructed(f) ==
  /\ t_prev = f.t_prev
  /\ x_prev = f.x_prev
  /\ dx_prev = f.dx_prev
  /\ min_cutoff = f.min_cutoff
  /\ beta = f.beta
  /\ d_cutoff = f.d_cutoff
  /\ log = <<>>

Init ==
  /\ \E x0 \in Values, p \in Params :
        Constructed(OneEuroFilterInit(FZero, x0, FZero, p[1], p[2], p[3]))
  /\ margs = <<>>
  /\ mret = NoCall

Next == \E t \in Times, v \in Values : Call(t, v)

Spec == Init /\ [][Next]_vars

MapInit ==
  /\ Constructed(OneEuroFilterInit(FZero, FZero, FZero, Fl(1, 0), FZero, Fl(1, 0)))
  /\ \E vx \in Norms, vy \in Norms, src \in SrcSizes, dst \in DstSizes :
        margs = [x |-> vx, y |-> vy, src_w |-> src[1], src_h |-> src[2],
                 dst_w |-> dst[1], dst_h |-> dst[2]]
  /\ mret = NoCall

MapNext == MapCall

MapSpec == MapInit /\ [][MapNext]_vars

----------------------------------------------------------------------------
(* Exact arithmetic on floats, for stating tolerances: a dyadic number is  *)
(* [s, m, e] with any significand m, and nothing here rounds.              *)

DSumMag(sa, ma, sb, mb, e, c) ==
  IF sa = sb THEN Mk(sa, BAdd(ma, mb), e)
  ELSE IF c = 0 THEN FZero
  ELSE IF c > 0 THEN Mk(sa, BSub(ma, mb), e)
  ELSE Mk(sb, BSub(mb, ma), e)

DSumAt(a, b, e) ==
  DSumMag(a.s, BShl(a.m, a.e - e), b.s, BShl(b.m, b.e - e), e,
          BCmp(BShl(a.m, a.e - e), BShl(b.m, b.e - e)))

DAdd(a, b) ==
  IF a.m = <<>> THEN b
  ELSE IF b.m = <<>> THEN a
  ELSE DSumAt(a, b, IF a.e < b.e THEN a.e ELSE b.e)

DNeg(a) == IF a.m = <<>> THEN a ELSE [a EXCEPT !.s = 1 - a.s]
DSub(a, b) == DAdd(a, DNeg(b))
DAbs(a) == [a EXCEPT !.s = 0]
DMul(a, b) == IF a.m = <<>> \/ b.m = <<>> THEN FZero ELSE Mk((a.s + b.s) % 2, BMul(a.m, b.m), a.e + b.e)
\* a * 2^n
DScale(a, n) == IF a.m = <<>> THEN a ELSE [a EXCEPT !.e = a.e + n]
DLe(a, b) == DSub(a, b).m = <<>> \/ DSub(a, b).s = 1
DLt(a, b) == DSub(a, b).m # <<>> /\ DSub(a, b).s = 1
DMax(a, b) == IF DLe(a, b) THEN b ELSE a
DMin(a, b) == IF DLe(a, b) THEN a ELSE b

\* Every float of the state is zero or in the normal range of binary64,
\* 2^-1022 <= |v| < 2^1024, where the model's rounding is the hardware's
Normal(v) == IsNum(v) => (v.m = <<>> \/ (v.e >= -1074 /\ v.e <= 971))
InNormalRange ==
  /\ \A v \in {t_prev, x_prev, dx_prev, min_cutoff, beta, d_cutoff} : Normal(v)
  /\ \A i \in 1..Len(log) : \A j \in 1..Len(log[i].est) :
        \A v \in {log[i].est[j].t_e, log[i].est[j].a_d, log[i].est[j].dx, log[i].est[j].dx_hat,
                  log[i].est[j].cutoff, log[i].est[j].a, log[i].est[j].x_hat} : Normal(v)

----------------------------------------------------------------------------
(* The claims about OneEuroFilter, on the calls recorded in log.           *)

\* The fields after call i
Post(i) == IF i < Len(log) THEN log[i + 1].pre ELSE Fields

\* Call i was accepted: its timestamp was past t_prev and it returned
Accepted(i) == FGt(log[i].t, log[i].pre.t_prev) /\ log[i].outcome = "returned"

\* min_cutoff > 0, d_cutoff > 0 and beta >= 0
ValidParams == FGt(min_cutoff, FZero) /\ FGt(d_cutoff, FZero) /\ FGe(beta, FZero)

\* C1: a call update(t, x) with t <= t_prev returns the current x_prev
\* exactly, whatever x is, and leaves t_prev, x_prev and dx_prev unchanged.
C1_OutOfOrderGuard ==
  \A i \in 1..Len(log) :
    FLe(log[i].t, log[i].pre.t_prev) =>
      /\ log[i].outcome = "returned"
      /\ log[i].ret = log[i].pre.x_prev
      /\ Post(i) = log[i].pre

\* A call with a timestamp before t_prev and a value other than x_prev,
\* made after an accepted call
C1_Witness ==
  \E i \in 2..Len(log) :
    /\ Accepted(i - 1)
    /\ FLt(log[i].t, log[i].pre.t_prev)
    /\ log[i].x # log[i].pre.x_prev
    /\ log[i].ret = log[i].pre.x_prev

\* The last accepted call among the first n, 0 if there is none
RECURSIVE LastAccepted(_)
LastAccepted(n) == IF n = 0 THEN 0 ELSE IF Accepted(n) THEN n ELSE LastAccepted(n - 1)

\* C2: after any sequence of calls, t_prev is the timestamp of the most
\* recent accepted call (t0 if there is none), x_prev the value that call
\* returned and dx_prev its dx_hat; t_prev never decreases over a call and
\* strictly increases over an accepted one.
C2_FieldsReflectLastAccepted ==
  /\ IF LastAccepted(Len(log)) = 0
     THEN log # <<>> => Fields = log[1].pre
     ELSE /\ t_prev = log[LastAccepted(Len(log))].t
          /\ x_prev = log[LastAccepted(Len(log))].ret
          /\ log[LastAccepted(Len(log))].est # <<>>
          /\ dx_prev = log[LastAccepted(Len(log))].est[1].dx_hat
  /\ \A i \in 1..Len(log) :
        /\ FLe(log[i].pre.t_prev, Post(i).t_prev)
        /\ Accepted(i) => FLt(log[i].pre.t_prev, Post(i).t_prev)

\* An accepted call followed by a rejected one
C2_Witness ==
  /\ Len(log) >= 2
  /\ Accepted(Len(log) - 1)
  /\ ~Accepted(Len(log))
  /\ t_prev = log[Len(log) - 1].t
  /\ x_prev # log[1].pre.x_prev

\* C5: no filter with min_cutoff <= 0 or d_cutoff <= 0 exists, so no call
\* runs on one: construction rejects such parameters.
C5_NoCallOnNonPositiveCutoff ==
  log # <<>> => FGt(min_cutoff, FZero) /\ FGt(d_cutoff, FZero)

\* |a - b| <= 2^-51 * bound + slack, exactly
Within(a, b, slack, bound) == DLe(DScale(DSub(DAbs(DSub(a, b)), slack), 51), DAbs(bound))

Faster(i, j) ==
  /\ Accepted(i) /\ Accepted(j)
  /\ log[i].est # <<>> /\ log[j].est # <<>>
  /\ log[i].est[1].t_e = log[j].est[1].t_e
  /\ FLt(FAbs(log[i].est[1].dx_hat), FAbs(log[j].est[1].dx_hat))

\* C9 as stated: with min_cutoff > 0 and beta >= 0, of two accepted calls
\* with the same dt the one with the larger |dx_hat| uses a cutoff and an
\* alpha larger than or equal to the other's.
C9_MonotoneExact ==
  (FGt(min_cutoff, FZero) /\ FGe(beta, FZero)) =>
    \A i, j \in 1..Len(log) :
      Faster(i, j) =>
        /\ FLe(log[i].est[1].cutoff, log[j].est[1].cutoff)
        /\ FLe(log[i].est[1].a, log[j].est[1].a)

\* C9, amended: the cutoff is larger or equal, and alpha is larger or equal
\* up to rounding: alpha_j >= alpha_i * (1 - 2^-51).
C9_MonotoneUpToRounding ==
  (FGt(min_cutoff, FZero) /\ FGe(beta, FZero)) =>
    \A i, j \in 1..Len(log) :
      Faster(i, j) =>
        /\ FLe(log[i].est[1].cutoff, log[j].est[1].cutoff)
        /\ DLe(DScale(DSub(log[i].est[1].a, log[j].est[1].a), 51), log[i].est[1].a)

\* Two such calls with a strictly larger cutoff and a strictly larger alpha
C9_Witness ==
  /\ FGt(min_cutoff, FZero) /\ FGt(beta, FZero)
  /\ \E i, j \in 1..Len(log) :
        /\ Faster(i, j)
        /\ FLt(log[i].est[1].cutoff, log[j].est[1].cutoff)
        /\ FLt(log[i].est[1].a, log[j].est[1].a)

UnitInterval(a) == FLe(FZero, a) /\ FLe(a, Fl(1, 0))

\* C10 as stated: on an accepted call of a filter with valid parameters
\* alpha_d and alpha lie in [0, 1] and x_hat lies between x_prev and x.
C10_BetweenExact ==
  ValidParams =>
    \A i \in 1..Len(log) :
      Accepted(i) =>
        /\ log[i].est # <<>>
        /\ UnitInterval(log[i].est[1].a_d)
        /\ UnitInterval(log[i].est[1].a)
        /\ FLe(NpMinimum(log[i].pre.x_prev, log[i].x), log[i].ret)
        /\ FLe(log[i].ret, NpMaximum(log[i].pre.x_prev, log[i].x))

\* C10, amended: alpha_d and alpha lie in [0, 1] and x_hat lies between
\* x_prev and x up to rounding: it is at most 2^-51 * max(|x|, |x_prev|)
\* below the smaller or above the larger of the two.
C10_BetweenUpToRounding ==
  ValidParams =>
    \A i \in 1..Len(log) :
      Accepted(i) =>
        /\ log[i].est # <<>>
        /\ UnitInterval(log[i].est[1].a_d)
        /\ UnitInterval(log[i].est[1].a)
        /\ DLe(DScale(DSub(DMin(log[i].pre.x_prev, log[i].x), log[i].ret), 51),
               DMax(DAbs(log[i].x), DAbs(log[i].pre.x_prev)))
        /\ DLe(DScale(DSub(log[i].ret, DMax(log[i].pre.x_prev, log[i].x)), 51),
               DMax(DAbs(log[i].x), DAbs(log[i].pre.x_prev)))

\* An accepted call on a filter with valid parameters, x # x_prev, with
\* both factors strictly inside (0, 1) and x_hat strictly between
C10_Witness ==
  /\ ValidParams
  /\ \E i \in 1..Len(log) :
        /\ Accepted(i)
        /\ log[i].est # <<>>
        /\ FLt(FZero, log[i].est[1].a) /\ FLt(log[i].est[1].a, Fl(1, 0))
        /\ FLt(FZero, log[i].est[1].a_d) /\ FLt(log[i].est[1].a_d, Fl(1, 0))
        /\ FLt(NpMinimum(log[i].pre.x_prev, log[i].x), log[i].ret)
        /\ FLt(log[i].ret, NpMaximum(log[i].pre.x_prev, log[i].x))

----------------------------------------------------------------------------
(* The claims about map_coordinates, on the call in margs and mret.        *)

Called == mret # NoCall

\* src_w > 2 * margin, src_h > 2 * margin, dst_w >= 0 and dst_h >= 0
ValidConfig ==
  /\ margs.src_w > 2 * margin /\ margs.src_h > 2 * margin
  /\ margs.dst_w >= 0 /\ margs.dst_h >= 0

\* The call map_coordinates(nx / dx, ny / dy, src_w, src_h, dst_w, dst_h)
CallOf(nx, dx, ny, dy, src_w, src_h, dst_w, dst_h) ==
  margs = [x |-> Ratio(nx, dx), y |-> Ratio(ny, dy), src_w |-> src_w, src_h |-> src_h,
           dst_w |-> dst_w, dst_h |-> dst_h]

Returned(px, py) == mret = [kind |-> "ok", x |-> px, y |-> py]

\* C3: under valid configuration the mapper returns integers with
\* 0 <= screen_x <= dst_w and 0 <= screen_y <= dst_h, for every input.
C3_OutputInRange ==
  (Called /\ ValidConfig) =>
    /\ mret.kind = "ok"
    /\ 0 <= mret.x /\ mret.x <= margs.dst_w
    /\ 0 <= mret.y /\ mret.y <= margs.dst_h

\* A call under valid configuration with both inputs outside [0, 1] and a
\* destination of positive size
C3_Witness ==
  /\ Called /\ ValidConfig
  /\ FLt(margs.x, FZero) /\ FGt(margs.y, Fl(1, 0))
  /\ margs.dst_w > 0 /\ margs.dst_h > 0
  /\ Returned(0, margs.dst_h)

\* C4: the mapper invoked with src_w <= 2 * margin or src_h <= 2 * margin
\* signals InvalidConfiguration and returns no pair.
C4_RejectsDegenerateConfig ==
  (Called /\ (margs.src_w <= 2 * margin \/ margs.src_h <= 2 * margin)) =>
    mret.kind = "InvalidConfiguration"

\* C6: under valid configuration an input with x * src_w <= margin maps to
\* 0 and one with x * src_w >= src_w - margin maps to dst_w, the products
\* taken exactly, and the same for y; with src 1000 x 1000, dst 1920 x 1080,
\* (0.0, 0.0) and (0.05, 0.05) give (0, 0) and (1.0, 1.0) gives (1920, 1080).
C6_ClampedAtTheMargins ==
  (Called /\ ValidConfig) =>
    /\ mret.kind = "ok"
    /\ DLe(DMul(margs.x, FromInt(margs.src_w)), FromInt(margin)) => mret.x = 0
    /\ DLe(FromInt(margs.src_w - margin), DMul(margs.x, FromInt(margs.src_w)))
          => mret.x = margs.dst_w
    /\ DLe(DMul(margs.y, FromInt(margs.src_h)), FromInt(margin)) => mret.y = 0
    /\ DLe(FromInt(margs.src_h - margin), DMul(margs.y, FromInt(margs.src_h)))
          => mret.y = margs.dst_h
    /\ CallOf(0, 1, 0, 1, 1000, 1000, 1920, 1080) => Returned(0, 0)
    /\ CallOf(1, 20, 1, 20, 1000, 1000, 1920, 1080) => Returned(0, 0)
    /\ CallOf(1, 1, 1, 1, 1000, 1000, 1920, 1080) => Returned(1920, 1080)

\* The call with (0.05, 0.05): source pixel 50, inside the margin of 100
C6_Witness ==
  /\ Called
  /\ CallOf(1, 20, 1, 20, 1000, 1000, 1920, 1080)
  /\ Returned(0, 0)

\* clamp(v, lo, hi) of the specification
Clamp(v, lo, hi) == IF FLt(v, lo) THEN lo ELSE IF FGt(v, hi) THEN hi ELSE v

\* ((clamp(v * src, margin, src - margin) - margin) / (src - 2 * margin)) * dst
\* in float arithmetic
Scaled(v, src, dst) ==
  FMul(FDiv(FSub(Clamp(FMul(v, FromInt(src)), FromInt(margin), FromInt(src - margin)),
                 FromInt(margin)),
            FromInt(src - 2 * margin)),
       FromInt(dst))

\* n is v truncated toward zero
TruncationOf(n, v) ==
  IF FGe(v, FZero) THEN FLe(FromInt(n), v) /\ FLt(v, FromInt(n + 1))
  ELSE FLt(FromInt(n - 1), v) /\ FLe(v, FromInt(n))

\* C7: under valid configuration the result on each axis is the truncation
\* toward zero of ((clamp(x * src_w, margin, src_w - margin) - margin) /
\* (src_w - 2 * margin)) * dst_w, a function of the call's inputs alone;
\* map(0.5, 0.5, 1000, 1000, 1920, 1080) returns (960, 540).
C7_TruncatedFormula ==
  (Called /\ ValidConfig) =>
    /\ mret.kind = "ok"
    /\ TruncationOf(mret.x, Scaled(margs.x, margs.src_w, margs.dst_w))
    /\ TruncationOf(mret.y, Scaled(margs.y, margs.src_h, margs.dst_h))
    /\ CallOf(1, 2, 1, 2, 1000, 1000, 1920, 1080) => Returned(960, 540)

\* A call whose scaled x has a fractional part of at least one half, so
\* that rounding would give another pixel than truncation
C7_Witness ==
  /\ Called /\ ValidConfig
  /\ mret.kind = "ok"
  /\ FGe(FSub(Scaled(margs.x, margs.src_w, margs.dst_w), FromInt(mret.x)), Fl(1, -1))
  /\ margs.src_w = 640

====
